---- MODULE Spec2Model ----
(***************************************************************************)
(* SPARQL Burger: the term layer (SPARQLSyntaxTerms.py) and the pattern /  *)
(* query layer (SPARQLQueryBuilder.py).                                    *)
(*                                                                         *)
(* Python strings are TLA+ strings, so every text below is the very text   *)
(* the code builds.  A Python value is a record tagged with its class      *)
(* (field cls).  Patterns and queries are mutable objects: they live in    *)
(* the heap variables pat, sel and upd and are referred to by reference    *)
(* records.  Terms are immutable after construction: they are values.      *)
(***************************************************************************)
EXTENDS Integers, Sequences, FiniteSets, TLC

VARIABLES pat, sel, upd, call, ret, added, nops

vars == <<pat, sel, upd, call, ret, added, nops>>

heap == <<pat, sel, upd>>

(***************************************************************************)
(* Bounds of the model.                                                    *)
(***************************************************************************)
\* Builder calls that return True in one behaviour of Spec.
MaxOps == 2

\* Builder calls that return True in one behaviour of SpecClauses.
MaxClauseOps == 4

\* Builder calls that return True in one behaviour of SpecNesting.
MaxNestOps == 3

\* Largest indentation_depth a caller passes to get_text.
MaxDepth == 1

\* Frames the interpreter grants to one outermost get_text call before it
\* raises RecursionError (sys.getrecursionlimit(), scaled down).  Every call
\* a method body makes takes one frame while it runs: a call of get_text,
\* of in_brackets, and of a builtin (print, join, str, startswith).
RecursionLimit == 6

(***************************************************************************)
(* Python values.                                                          *)
(***************************************************************************)
PyStr(s) == [cls |-> "str", s |-> s]

PyInt(i) == [cls |-> "int", i |-> i]

PyBool(b) == [cls |-> "bool", b |-> b]

PyNone == [cls |-> "NoneType"]

PyList(items) == [cls |-> "list", items |-> items]

PyTrue == PyBool(TRUE)

PyFalse == PyBool(FALSE)

\* Truth value of a Python value, as `if x:` tests it.
Truthy(v) ==
  CASE v.cls = "bool" -> v.b
    [] v.cls = "int" -> v.i # 0
    [] v.cls = "str" -> v.s # ""
    [] v.cls = "list" -> v.items # << >>
    [] v.cls = "NoneType" -> FALSE
    [] OTHER -> TRUE

\* str(v), which is also what "%s" % (v,) inserts.
PyToStr(v) ==
  CASE v.cls = "str" -> v.s
    [] v.cls = "int" -> ToString(v.i)
    [] v.cls = "bool" -> (IF v.b THEN "True" ELSE "False")
    [] v.cls = "NoneType" -> "None"
    [] OTHER -> "<" \o v.cls \o " object>"

\* User-defined subclasses of the library's classes: the library checks some
\* arguments with isinstance, which admits them, and others with `type(x) is C`.
SubclassOf == {<<"TripleSub", "Triple">>, <<"ValuesSub", "Values">>}

IsInstance(v, c) == v.cls = c \/ <<v.cls, c>> \in SubclassOf

TypeIs(v, c) == v.cls = c

\* n * "   "
RECURSIVE Indent(_)
Indent(n) == IF n <= 0 THEN "" ELSE "   " \o Indent(n - 1)

\* sep.join(strs), strs a sequence of strings
RECURSIVE Join(_, _)
Join(strs, sep) ==
  IF strs = << >> THEN ""
  ELSE IF Len(strs) = 1 THEN strs[1]
  ELSE strs[1] \o sep \o Join(Tail(strs), sep)

\* s.startswith(prefix)
StartsWith(s, prefix) ==
  Len(s) >= Len(prefix) /\ SubSeq(s, 1, Len(prefix)) = prefix

\* s[:-1]
DropLast(s) == SubSeq(s, 1, Len(s) - 1)

(***************************************************************************)
(* Outcome of a piece of a method body: it went on with text s, it         *)
(* returned the value v, or it raised.                                     *)
(***************************************************************************)
Ok(s) == [kind |-> "ok", s |-> s, v |-> PyNone]

Returned(v) == [kind |-> "return", s |-> "", v |-> v]

Raised == [kind |-> "raise", s |-> "", v |-> PyNone]

\* x is evaluated once, and F is applied to its value.
Let(x, F(_)) == CHOOSE r \in {F(v) : v \in {x}} : TRUE

\* Statements in sequence: when the statements so far went on with a text, F
\* goes on from that text; when they returned or raised, so does the whole.
Then(s, F(_)) == Let(s, LAMBDA v : IF v.kind # "ok" THEN v ELSE F(v.s))

(***************************************************************************)
(* Term layer.                                                             *)
(***************************************************************************)
Prefix(prefix, namespace) ==
  [cls |-> "Prefix", prefix |-> prefix, namespace |-> namespace]

Triple(subject, predicate, object) ==
  [cls |-> "Triple", subject |-> PyToStr(subject),
   predicate |-> PyToStr(predicate), object |-> PyToStr(object)]

\* An instance of a user-defined subclass of Triple (it inherits __init__ and
\* get_text).
TripleSub(subject, predicate, object) ==
  [Triple(subject, predicate, object) EXCEPT !.cls = "TripleSub"]

Filter(expression) == [cls |-> "Filter", expression |-> expression]

Having(expression) == [cls |-> "Having", expression |-> expression]

Binding(value, variable) ==
  [cls |-> "Binding", value |-> value, variable |-> variable]

Bound(variable) == [cls |-> "Bound", variable |-> variable]

IfClause(condition, true_value, false_value) ==
  [cls |-> "IfClause", condition |-> condition, true_value |-> true_value,
   false_value |-> false_value]

GroupBy(variables) == [cls |-> "GroupBy", variables |-> variables]

Values(values, name) == [cls |-> "Values", values |-> values, name |-> name]

\* An instance of a user-defined subclass of Values.
ValuesSub(values, name) == [Values(values, name) EXCEPT !.cls = "ValuesSub"]

TermClasses ==
  {"Prefix", "Triple", "TripleSub", "Filter", "Having", "Binding", "Bound",
   "IfClause", "GroupBy", "Values", "ValuesSub"}

\* in_brackets(uri), n levels left (its own frame included).  uri.startswith
\* raises AttributeError when uri is no str, and the call of startswith takes
\* a level.
in_brackets(uri, n) ==
  IF uri.cls # "str" THEN Raised
  ELSE IF n - 1 < 1 THEN Raised
  ELSE IF StartsWith(uri.s, "<") THEN Ok(uri.s)
  ELSE IF StartsWith(uri.s, "http") THEN Ok("<" \o uri.s \o ">")
  ELSE Ok(uri.s)

\* The elements `for value in x` goes through: those of a list, the
\* characters of a str.
Iterate(x) ==
  IF x.cls = "list" THEN x.items
  ELSE [i \in 1..Len(x.s) |-> PyStr(SubSeq(x.s, i, i))]

\* ' '.join([in_brackets(value) for value in self.values]): joined is the
\* text of the elements before the i-th, n the levels left in the frame of
\* the comprehension.
RECURSIVE EnclosedValues(_, _, _, _)
EnclosedValues(items, i, joined, n) ==
  IF i > Len(items) THEN Ok(joined)
  ELSE IF n - 1 < 1 THEN Raised
  ELSE Then(in_brackets(items[i], n - 1), LAMBDA enclosed :
         EnclosedValues(items, i + 1,
                        IF i = 1 THEN enclosed ELSE joined \o " " \o enclosed, n))

\* " ".join(self.variables), n levels left in the calling frame: TypeError
\* unless the argument is a list of str or a str; the call of join takes a
\* level, and a second one when it goes through a str.
GroupByJoin(variables, n) ==
  IF n - 1 < 1 THEN Raised
  ELSE IF variables.cls = "str"
  THEN IF n - 2 < 1 THEN Raised
       ELSE Ok(Join([i \in 1..Len(variables.s) |-> SubSeq(variables.s, i, i)], " "))
  ELSE IF variables.cls # "list" THEN Raised
  ELSE IF \E i \in 1..Len(variables.items) : variables.items[i].cls # "str"
       THEN Raised
  ELSE Ok(Join([i \in 1..Len(variables.items) |-> variables.items[i].s], " "))

\* The get_text methods of the term classes.  n is the number of levels the
\* interpreter still grants, the frame of this call included (n >= 1): every
\* call of a method or function, of print, join and startswith, and every
\* list comprehension takes one, and a call made with none left raises
\* RecursionError in the caller.  A slot that holds neither a str nor a term
\* (an int, None) has no get_text: the call raises AttributeError.  Slots
\* that hold pattern or query objects are not among the inputs drawn here.
\* A method evaluates to Returned(v) or Raised.
RECURSIVE TermGetText(_, _)
SlotText(v, n) ==
  IF TypeIs(v, "str") THEN Ok(v.s)
  ELSE IF v.cls \notin TermClasses THEN Raised
  ELSE IF n - 1 < 1 THEN Raised
  ELSE Let(TermGetText(v, n - 1), LAMBDA r :
         IF r.kind = "raise" THEN Raised ELSE Ok(PyToStr(r.v)))

PrefixBody(o, n) ==
  Returned(PyStr("PREFIX " \o PyToStr(o.prefix) \o ": <" \o PyToStr(o.namespace)
                 \o ">\n"))

TripleBody(o, n) ==
  Returned(PyStr(o.subject \o " " \o o.predicate \o " " \o o.object \o " . \n"))

FilterBody(o, n) == Returned(PyStr("FILTER (" \o PyToStr(o.expression) \o ")"))

HavingBody(o, n) == Returned(PyStr("HAVING (" \o PyToStr(o.expression) \o ")"))

BindingBody(o, n) ==
  Then(SlotText(o.value, n), LAMBDA value_text :
    Returned(PyStr("BIND (" \o value_text \o " AS " \o PyToStr(o.variable) \o ")")))

BoundBody(o, n) ==
  Then(SlotText(o.variable, n), LAMBDA variable_text :
    Returned(PyStr("BOUND (" \o variable_text \o ")")))

IfClauseBody(o, n) ==
  Then(SlotText(o.condition, n), LAMBDA condition_text :
  Then(SlotText(o.true_value, n), LAMBDA true_value_text :
  Then(SlotText(o.false_value, n), LAMBDA false_value_text :
    Returned(PyStr("IF (" \o condition_text \o ", " \o true_value_text \o ", "
                   \o false_value_text \o ")")))))

GroupByBody(o, n) ==
  Then(GroupByJoin(o.variables, n), LAMBDA joined :
    Returned(PyStr("GROUP BY " \o joined)))

\* The list comprehension takes a level, and so does the join after it.
ValuesBody(o, n) ==
  IF n - 1 < 1 THEN Raised
  ELSE IF o.values.cls \notin {"list", "str"} THEN Raised
  ELSE Then(EnclosedValues(Iterate(o.values), 1, "", n - 1), LAMBDA joined :
         Returned(PyStr("VALUES " \o PyToStr(o.name) \o " {" \o joined \o "}")))

TermBody(o, n) ==
  CASE o.cls = "Prefix" -> PrefixBody(o, n)
    [] o.cls \in {"Triple", "TripleSub"} -> TripleBody(o, n)
    [] o.cls = "Filter" -> FilterBody(o, n)
    [] o.cls = "Having" -> HavingBody(o, n)
    [] o.cls = "Binding" -> BindingBody(o, n)
    [] o.cls = "Bound" -> BoundBody(o, n)
    [] o.cls = "IfClause" -> IfClauseBody(o, n)
    [] o.cls = "GroupBy" -> GroupByBody(o, n)
    [] o.cls \in {"Values", "ValuesSub"} -> ValuesBody(o, n)

\* A variant of TryExcept that catches nothing.
TryExcept_NoHandler(body, n) == body

\* try: <body>  except Exception as e: print(...); return ""
\* The handler calls print, which takes a level as well: with none left
\* (n = 1) print raises RecursionError and the exception leaves the method.
TryExcept(body, n) ==
  Let(body, LAMBDA b :
    IF b.kind # "raise" THEN b
    ELSE IF n - 1 < 1 THEN Raised
    ELSE Returned(PyStr("")))

TermGetText(o, n) == TryExcept(TermBody(o, n), n)

\* A call x.get_text() of a term made from a frame with n levels left: the
\* text the call evaluates to, or Raised.
CallTerm(o, n) ==
  IF n - 1 < 1 THEN Raised
  ELSE Let(TermGetText(o, n - 1), LAMBDA r :
         IF r.kind = "raise" THEN Raised ELSE Ok(PyToStr(r.v)))

(***************************************************************************)
(* Pattern and query layer: the objects of the heap.                       *)
(***************************************************************************)
\* SPARQLGraphPattern.__init__
SPARQLGraphPattern(optional, union) ==
  [is_optional |-> optional, is_union |-> union, graph |-> << >>,
   filters |-> << >>, bindings |-> << >>, values |-> << >>]

\* SPARQLQuery.__init__ and SPARQLSelectQuery.__init__
\* (include_popular_prefixes left at its default, False)
SPARQLSelectQuery(distinct, limit) ==
  [prefixes |-> << >>, where |-> PyNone, distinct |-> distinct, limit |-> limit,
   variables |-> << >>, group_by |-> << >>]

\* SPARQLQuery.__init__ and SPARQLUpdateQuery.__init__
SPARQLUpdateQuery ==
  [prefixes |-> << >>, where |-> PyNone, delete |-> PyNone, insert |-> PyNone]

\* References to the objects of the heap.
PatRef(i) == [cls |-> "SPARQLGraphPattern", id |-> i]

SelRef(i) == [cls |-> "SPARQLSelectQuery", id |-> i]

UpdRef(i) == [cls |-> "SPARQLUpdateQuery", id |-> i]

RECURSIVE PatternGetText(_, _, _)
RECURSIVE SelectGetText(_, _, _)

\* for x in terms: query_text += "%s%s\n" % (inner_indentation, x.get_text())
\* query_text is the outcome so far; the loop stops at the first exception.
RECURSIVE ClauseLoop(_, _, _, _, _)
ClauseLoop(terms, i, query_text, inner_indentation, n) ==
  Let(query_text, LAMBDA q :
    IF q.kind # "ok" \/ i > Len(terms) THEN q
    ELSE ClauseLoop(terms, i + 1,
           Then(CallTerm(terms[i], n), LAMBDA text :
             Ok(q.s \o inner_indentation \o text \o "\n")),
           inner_indentation, n))

\* for prefix in self.prefixes: query_text += prefix.get_text()
RECURSIVE PrefixLoop(_, _, _, _)
PrefixLoop(prefixes, i, query_text, n) ==
  Let(query_text, LAMBDA q :
    IF q.kind # "ok" \/ i > Len(prefixes) THEN q
    ELSE PrefixLoop(prefixes, i + 1,
           Then(CallTerm(prefixes[i], n), LAMBDA text : Ok(q.s \o text)), n))

\* A variant of CallPattern that renders the callee one depth too low.
CallPattern_DepthNotRaised(id, d, n) ==
  IF n - 1 < 1 THEN Raised ELSE PatternGetText(id, d - 1, n - 1)

\* A call entry.get_text(indentation_depth=d) of a pattern or a select query
\* made from a frame with n levels left: Returned(v), or Raised.
CallPattern(id, d, n) ==
  IF n - 1 < 1 THEN Raised ELSE PatternGetText(id, d, n - 1)

CallSelect(id, d, n) ==
  IF n - 1 < 1 THEN Raised ELSE SelectGetText(id, d, n - 1)

\* A variant of PatternOpening that puts UNION and the brace on one line.
PatternOpening_UnionOnBraceLine(p, outer_indentation) ==
  IF Truthy(p.is_optional) THEN outer_indentation \o "OPTIONAL {\n"
  ELSE IF Truthy(p.is_union) THEN outer_indentation \o "UNION {\n"
  ELSE outer_indentation \o "{\n"

\* A variant of PatternOpening that tests is_union before is_optional.
PatternOpening_UnionFirst(p, outer_indentation) ==
  IF Truthy(p.is_union)
  THEN outer_indentation \o "UNION\n" \o outer_indentation \o "{\n"
  ELSE IF Truthy(p.is_optional) THEN outer_indentation \o "OPTIONAL {\n"
  ELSE outer_indentation \o "{\n"

\* The opening line of a pattern.
PatternOpening(p, outer_indentation) ==
  IF Truthy(p.is_optional) THEN outer_indentation \o "OPTIONAL {\n"
  ELSE IF Truthy(p.is_union)
       THEN outer_indentation \o "UNION\n" \o outer_indentation \o "{\n"
  ELSE outer_indentation \o "{\n"

\* if nested_graph_text: query_text += nested_graph_text
\* else: return False
AppendNestedGraph(query_text, nested_graph_text) ==
  Let(nested_graph_text, LAMBDA r :
    IF r.kind = "raise" THEN Raised
    ELSE IF Truthy(r.v) THEN Ok(query_text \o r.v.s)
    ELSE Returned(PyFalse))

\* if nested_select_text:
\*     query_text += "%s{%s%s}\n" % (inner, nested_select_text, inner)
\* else: return False
AppendNestedSelect(query_text, nested_select_text, inner_indentation) ==
  Let(nested_select_text, LAMBDA r :
    IF r.kind = "raise" THEN Raised
    ELSE IF Truthy(r.v)
         THEN Ok(query_text \o inner_indentation \o "{" \o r.v.s
                 \o inner_indentation \o "}\n")
    ELSE Returned(PyFalse))

\* entry.get_text(indentation_depth=indentation_depth + 1) of a nested
\* pattern, entry.get_text(indentation_depth=indentation_depth + 2) of a
\* nested select query (indentation_depth is d).
NestedText(entry, d, n) ==
  IF TypeIs(entry, "SPARQLGraphPattern") THEN CallPattern(entry.id, d + 1, n)
  ELSE IF TypeIs(entry, "SPARQLSelectQuery") THEN CallSelect(entry.id, d + 2, n)
  ELSE Returned(PyNone)

\* The outcomes of the calls the loop over self.graph can make, as pairs of
\* an entry and the outcome of its get_text.  get_text changes nothing, so
\* the outcome of a call depends neither on the text built before it nor on
\* the place of the entry in the list; the loop below takes the outcomes in
\* the order of the list, up to the first one that ends it.
NestedTexts(graph, d, n) ==
  {<<entry, NestedText(entry, d, n)>> : entry \in {graph[i] : i \in 1..Len(graph)}}

NestedTextOf(nested, entry) == (CHOOSE pair \in nested : pair[1] = entry)[2]

\* One pass of the loop over self.graph: a Triple, a nested pattern, a nested
\* select query; an entry of any other class adds nothing.
GraphEntry(entry, nested_text, query_text, d, n) ==
  IF TypeIs(entry, "Triple") THEN
    Then(CallTerm(entry, n), LAMBDA text : Ok(query_text \o Indent(d + 1) \o text))
  ELSE IF TypeIs(entry, "SPARQLGraphPattern") THEN
    AppendNestedGraph(query_text, nested_text)
  ELSE IF TypeIs(entry, "SPARQLSelectQuery") THEN
    AppendNestedSelect(query_text, nested_text, Indent(d + 1))
  ELSE Ok(query_text)

\* for entry in self.graph: ...   The loop stops at the first exception and
\* at the first return False; nested holds the outcomes of its calls.
RECURSIVE GraphLoop(_, _, _, _, _, _)
GraphLoop(graph, nested, i, query_text, d, n) ==
  Let(query_text, LAMBDA q :
    IF q.kind # "ok" \/ i > Len(graph) THEN q
    ELSE GraphLoop(graph, nested, i + 1,
                   GraphEntry(graph[i], NestedTextOf(nested, graph[i]), q.s, d, n),
                   d, n))

\* query_text += "%s}\n" % (outer_indentation, ); return query_text
PatternClosing(query_text, outer_indentation) ==
  Then(query_text, LAMBDA text : Returned(PyStr(text \o outer_indentation \o "}\n")))

\* A variant of PatternBody that emits the BIND clauses before the children.
PatternBody_BindingsFirst(p, nested, d, n) ==
  PatternClosing(
    ClauseLoop(p.filters, 1,
      GraphLoop(p.graph, nested, 1,
        ClauseLoop(p.bindings, 1,
          ClauseLoop(p.values, 1, Ok(PatternOpening(p, Indent(d))), Indent(d + 1), n),
          Indent(d + 1), n),
        d, n),
      Indent(d + 1), n),
    Indent(d))

\* The body of SPARQLGraphPattern.get_text, inside its try: the opening, the
\* value clauses, the graph, the bindings, the filters, the closing brace.
PatternBody(p, nested, d, n) ==
  PatternClosing(
    ClauseLoop(p.filters, 1,
      ClauseLoop(p.bindings, 1,
        GraphLoop(p.graph, nested, 1,
          ClauseLoop(p.values, 1, Ok(PatternOpening(p, Indent(d))), Indent(d + 1), n),
          d, n),
        Indent(d + 1), n),
      Indent(d + 1), n),
    Indent(d))

\* SPARQLGraphPattern.get_text(indentation_depth=d) of pattern id, with n
\* levels left (this call's frame included).
PatternGetText(id, d, n) ==
  Let(NestedTexts(pat[id].graph, d, n), LAMBDA nested :
    TryExcept(PatternBody(pat[id], nested, d, n), n))

\* query_text += "\n%s<TOKEN> " % (outer_indentation, )
\* query_text += self.<section>.get_text(indentation_depth=indentation_depth)[:-1]
\* False[:-1] raises TypeError.
PatternSection(query_text, token, section_text, d) ==
  Then(query_text, LAMBDA text :
    IF section_text.kind = "raise" THEN Raised
    ELSE IF section_text.v.cls # "str" THEN Raised
    ELSE Ok(text \o "\n" \o Indent(d) \o token \o " " \o DropLast(section_text.v.s)))

\* self.<section>.get_text(indentation_depth=indentation_depth) of a query's
\* pattern, when it has one.
SectionText(ref, d, n) ==
  IF ref = PyNone THEN Returned(PyNone) ELSE CallPattern(ref.id, d, n)

\* for group in self.group_by: query_text += "\n%s%s" % (outer, group.get_text())
RECURSIVE GroupLoop(_, _, _, _, _)
GroupLoop(groups, i, query_text, outer_indentation, n) ==
  Let(query_text, LAMBDA q :
    IF q.kind # "ok" \/ i > Len(groups) THEN q
    ELSE GroupLoop(groups, i + 1,
           Then(CallTerm(groups[i], n), LAMBDA text :
             Ok(q.s \o "\n" \o outer_indentation \o text)),
           outer_indentation, n))

\* query_text += "\n%sSELECT %s" % (outer_indentation, distinct_token), then
\* the joined variables or " *"; the call of join takes a level.
SelectClause(q, query_text, outer_indentation, n) ==
  Then(query_text, LAMBDA text :
    IF q.variables = << >>
    THEN Ok(text \o "\n" \o outer_indentation \o "SELECT "
            \o (IF Truthy(q.distinct) THEN "DISTINCT " ELSE "") \o " *")
    ELSE IF n - 1 < 1 THEN Raised
    ELSE Ok(text \o "\n" \o outer_indentation \o "SELECT "
            \o (IF Truthy(q.distinct) THEN "DISTINCT " ELSE "")
            \o Join([i \in 1..Len(q.variables) |-> q.variables[i].s], " ")))

\* The WHERE token, then the pattern's text when there is one.
WhereClause(q, where_text, query_text, d) ==
  IF q.where # PyNone THEN PatternSection(query_text, "WHERE", where_text, d)
  ELSE Then(query_text, LAMBDA text : Ok(text \o "\n" \o Indent(d) \o "WHERE "))

\* if self.limit: query_text += "\nLIMIT %s" % (str(self.limit)); the call of
\* str takes a level.
LimitClause(q, query_text, n) ==
  Then(query_text, LAMBDA text :
    IF ~Truthy(q.limit) THEN Returned(PyStr(text))
    ELSE IF n - 1 < 1 THEN Raised
    ELSE Returned(PyStr(text \o "\nLIMIT " \o PyToStr(q.limit))))

\* A variant of SelectBody that puts the WHERE section before the SELECT line.
SelectBody_WhereBeforeSelect(q, where_text, d, n) ==
  LimitClause(q,
    GroupLoop(q.group_by, 1,
      SelectClause(q,
        WhereClause(q, where_text, PrefixLoop(q.prefixes, 1, Ok(""), n), d),
        Indent(d), n),
      Indent(d), n),
    n)

\* The body of SPARQLSelectQuery.get_text, inside its try: the prefixes, the
\* SELECT line, the WHERE section, the GROUP BY lines, the LIMIT line.
SelectBody(q, where_text, d, n) ==
  LimitClause(q,
    GroupLoop(q.group_by, 1,
      WhereClause(q, where_text,
        SelectClause(q, PrefixLoop(q.prefixes, 1, Ok(""), n), Indent(d), n),
        d),
      Indent(d), n),
    n)

SelectGetText(id, d, n) ==
  Let(SectionText(sel[id].where, d, n), LAMBDA where_text :
    TryExcept(SelectBody(sel[id], where_text, d, n), n))

\* A variant of UpdateSection that writes the token of an unset section.
UpdateSection_TokenAlways(query_text, token, ref, section_text, d) ==
  IF ref = PyNone
  THEN Then(query_text, LAMBDA text : Ok(text \o "\n" \o Indent(d) \o token \o " "))
  ELSE PatternSection(query_text, token, section_text, d)

\* if self.<section> is not None: the token and the pattern's text.
UpdateSection(query_text, token, ref, section_text, d) ==
  IF ref = PyNone THEN query_text
  ELSE PatternSection(query_text, token, section_text, d)

\* The body of SPARQLUpdateQuery.get_text, inside its try: the prefixes, the
\* DELETE, INSERT and WHERE sections.
UpdateBody(u, texts, d, n) ==
  Then(UpdateSection(
         UpdateSection(
           UpdateSection(PrefixLoop(u.prefixes, 1, Ok(""), n),
                         "DELETE", u.delete, texts[1], d),
           "INSERT", u.insert, texts[2], d),
         "WHERE", u.where, texts[3], d),
       LAMBDA text : Returned(PyStr(text)))

UpdateGetText(id, d, n) ==
  Let(<<SectionText(upd[id].delete, d, n), SectionText(upd[id].insert, d, n),
        SectionText(upd[id].where, d, n)>>, LAMBDA texts :
    TryExcept(UpdateBody(upd[id], texts, d, n), n))

(***************************************************************************)
(* The objects the program works with.  Four patterns, one for each choice *)
(* of the two constructor flags, two select queries and one update query   *)
(* are constructed at the start; the term objects below are the arguments  *)
(* the builder calls are given.                                            *)
(***************************************************************************)
PatIds == 1..4

SelIds == 1..2

UpdIds == {1}

Patterns == {PatRef(i) : i \in PatIds}

Queries == {SelRef(i) : i \in SelIds} \cup {UpdRef(i) : i \in UpdIds}

T1 == Triple(PyStr("?person"), PyStr("rdf:type"), PyStr("ex:Person"))

T2 == Triple(PyStr("?person"), PyStr("ex:hasAge"), PyInt(30))

TS == TripleSub(PyStr("?s"), PyStr("?p"), PyStr("?o"))

F1 == Filter(PyStr("?age < 65"))

H1 == Having(PyStr("?n > 1"))

\* BIND (?age AS ?years)
B1 == Binding(PyStr("?age"), PyStr("?years"))

\* BIND (IF (BOUND (?address), ?address, 'Unknown') AS ?address)
B2 == Binding(IfClause(Bound(PyStr("?address")), PyStr("?address"),
                       PyStr("'Unknown'")), PyStr("?address"))

\* a Binding whose value slot holds an int
B3 == Binding(PyInt(5), PyStr("?x"))

\* a Binding whose nested Bound holds None
B4 == Binding(Bound(PyNone), PyStr("?y"))

V1 == Values(PyList(<<PyStr("https://x/1"), PyStr("<https://x/2>"), PyStr("ex:Foo")>>),
             PyStr("?v"))

V2 == ValuesSub(PyList(<<PyStr("https://x/1")>>), PyStr("?w"))

\* a Values whose sequence is not a list of strings
V3 == Values(PyList(<<PyInt(1)>>), PyStr("?u"))

PX == Prefix(PyStr("ex"), PyStr("http://www.example.com#"))

G1 == GroupBy(PyList(<<PyStr("?person"), PyStr("?age")>>))

\* a GroupBy whose sequence is None
G2 == GroupBy(PyNone)

\* a GroupBy given a string for its sequence
G3 == GroupBy(PyStr("?ab"))

I1 == IfClause(PyStr("?age >= 18"), PyStr("'adult'"), PyInt(0))

Terms == {T2, F1, H1, B2, B3, B4, V1, V3, PX, G1, G2, G3, I1,
          Bound(I1), IfClause(Bound(PyNone), PyStr("1"), PyStr("2"))}

(***************************************************************************)
(* The builder operations.  Each action is one call: it records the call   *)
(* and its return value.  added is a log kept for the analysis only: for   *)
(* each pattern, the children handed to the add_triples,                   *)
(* add_nested_graph_pattern and add_nested_select_query calls that         *)
(* returned True, in call order; nops counts the builder calls that        *)
(* returned True.                                                          *)
(***************************************************************************)
Called(op, self, arg) == call' = [op |-> op, self |-> self, arg |-> arg]

Counted == nops' = IF ret' = PyTrue THEN nops + 1 ELSE nops

Logged(id, children) ==
  added' = [added EXCEPT ![id] = IF ret' = PyTrue THEN @ \o children ELSE @]

\* A variant of IsTripleList that tests the container only.
IsTripleList_ContainerOnly(triples) == TypeIs(triples, "list")

\* type(triples) is list and all(isinstance(element, Triple) for element in triples)
IsTripleList(triples) ==
  /\ TypeIs(triples, "list")
  /\ \A k \in 1..Len(triples.items) : IsInstance(triples.items[k], "Triple")

\* type(variables) is list and all(isinstance(element, str) for element in variables)
IsStrList(variables) ==
  /\ TypeIs(variables, "list")
  /\ \A k \in 1..Len(variables.items) : IsInstance(variables.items[k], "str")

add_triples(id, triples) ==
  /\ Called("add_triples", PatRef(id), triples)
  /\ IF IsTripleList(triples)
     THEN /\ pat' = [pat EXCEPT ![id].graph = @ \o triples.items]
          /\ ret' = PyTrue
     ELSE /\ pat' = pat
          /\ ret' = PyFalse
  /\ Logged(id, IF TypeIs(triples, "list") THEN triples.items ELSE <<triples>>)
  /\ Counted
  /\ UNCHANGED <<sel, upd>>

add_nested_graph_pattern(id, graph_pattern) ==
  /\ Called("add_nested_graph_pattern", PatRef(id), graph_pattern)
  /\ IF TypeIs(graph_pattern, "SPARQLGraphPattern")
     THEN /\ pat' = [pat EXCEPT ![id].graph = Append(@, graph_pattern)]
          /\ ret' = PyTrue
     ELSE /\ pat' = pat
          /\ ret' = PyFalse
  /\ Logged(id, <<graph_pattern>>)
  /\ Counted
  /\ UNCHANGED <<sel, upd>>

add_nested_select_query(id, select_query) ==
  /\ Called("add_nested_select_query", PatRef(id), select_query)
  /\ IF TypeIs(select_query, "SPARQLSelectQuery")
     THEN /\ pat' = [pat EXCEPT ![id].graph = Append(@, select_query)]
          /\ ret' = PyTrue
     ELSE /\ pat' = pat
          /\ ret' = PyFalse
  /\ Logged(id, <<select_query>>)
  /\ Counted
  /\ UNCHANGED <<sel, upd>>

add_filter(id, filter) ==
  /\ Called("add_filter", PatRef(id), filter)
  /\ IF TypeIs(filter, "Filter")
     THEN /\ pat' = [pat EXCEPT ![id].filters = Append(@, filter)]
          /\ ret' = PyTrue
     ELSE /\ pat' = pat
          /\ ret' = PyFalse
  /\ Counted
  /\ UNCHANGED <<sel, upd, added>>

add_having(id, filter) ==
  /\ Called("add_having", PatRef(id), filter)
  /\ IF TypeIs(filter, "Having")
     THEN /\ pat' = [pat EXCEPT ![id].filters = Append(@, filter)]
          /\ ret' = PyTrue
     ELSE /\ pat' = pat
          /\ ret' = PyFalse
  /\ Counted
  /\ UNCHANGED <<sel, upd, added>>

add_binding(id, binding) ==
  /\ Called("add_binding", PatRef(id), binding)
  /\ IF TypeIs(binding, "Binding")
     THEN /\ pat' = [pat EXCEPT ![id].bindings = Append(@, binding)]
          /\ ret' = PyTrue
     ELSE /\ pat' = pat
          /\ ret' = PyFalse
  /\ Counted
  /\ UNCHANGED <<sel, upd, added>>

add_value(id, value) ==
  /\ Called("add_value", PatRef(id), value)
  /\ IF IsInstance(value, "Values")
     THEN /\ pat' = [pat EXCEPT ![id].values = Append(@, value)]
          /\ ret' = PyTrue
     ELSE /\ pat' = pat
          /\ ret' = PyFalse
  /\ Counted
  /\ UNCHANGED <<sel, upd, added>>

\* SPARQLQuery.add_prefix, inherited by both query classes; q is a reference.
add_prefix(q, prefix) ==
  /\ Called("add_prefix", q, prefix)
  /\ IF TypeIs(prefix, "Prefix")
     THEN /\ IF q.cls = "SPARQLSelectQuery"
             THEN /\ sel' = [sel EXCEPT ![q.id].prefixes = Append(@, prefix)]
                  /\ upd' = upd
             ELSE /\ upd' = [upd EXCEPT ![q.id].prefixes = Append(@, prefix)]
                  /\ sel' = sel
          /\ ret' = PyTrue
     ELSE /\ UNCHANGED <<sel, upd>>
          /\ ret' = PyFalse
  /\ Counted
  /\ UNCHANGED <<pat, added>>

\* SPARQLQuery.set_where_pattern, inherited by both query classes.
set_where_pattern(q, graph_pattern) ==
  /\ Called("set_where_pattern", q, graph_pattern)
  /\ IF TypeIs(graph_pattern, "SPARQLGraphPattern")
     THEN /\ IF q.cls = "SPARQLSelectQuery"
             THEN /\ sel' = [sel EXCEPT ![q.id].where = graph_pattern]
                  /\ upd' = upd
             ELSE /\ upd' = [upd EXCEPT ![q.id].where = graph_pattern]
                  /\ sel' = sel
          /\ ret' = PyTrue
     ELSE /\ UNCHANGED <<sel, upd>>
          /\ ret' = PyFalse
  /\ Counted
  /\ UNCHANGED <<pat, added>>

add_variables(id, variables) ==
  /\ Called("add_variables", SelRef(id), variables)
  /\ IF IsStrList(variables)
     THEN /\ sel' = [sel EXCEPT ![id].variables = @ \o variables.items]
          /\ ret' = PyTrue
     ELSE /\ sel' = sel
          /\ ret' = PyFalse
  /\ Counted
  /\ UNCHANGED <<pat, upd, added>>

add_group_by(id, group) ==
  /\ Called("add_group_by", SelRef(id), group)
  /\ IF TypeIs(group, "GroupBy")
     THEN /\ sel' = [sel EXCEPT ![id].group_by = Append(@, group)]
          /\ ret' = PyTrue
     ELSE /\ sel' = sel
          /\ ret' = PyFalse
  /\ Counted
  /\ UNCHANGED <<pat, upd, added>>

set_delete_pattern(id, graph_pattern) ==
  /\ Called("set_delete_pattern", UpdRef(id), graph_pattern)
  /\ IF TypeIs(graph_pattern, "SPARQLGraphPattern")
     THEN /\ upd' = [upd EXCEPT ![id].delete = graph_pattern]
          /\ ret' = PyTrue
     ELSE /\ upd' = upd
          /\ ret' = PyFalse
  /\ Counted
  /\ UNCHANGED <<pat, sel, added>>

set_insert_pattern(id, graph_pattern) ==
  /\ Called("set_insert_pattern", UpdRef(id), graph_pattern)
  /\ IF TypeIs(graph_pattern, "SPARQLGraphPattern")
     THEN /\ upd' = [upd EXCEPT ![id].insert = graph_pattern]
          /\ ret' = PyTrue
     ELSE /\ upd' = upd
          /\ ret' = PyFalse
  /\ Counted
  /\ UNCHANGED <<pat, sel, added>>

(***************************************************************************)
(* get_text called by the user.  The call evaluates to a value, or an      *)
(* exception reaches the caller.                                           *)
(***************************************************************************)
PyException == [cls |-> "Exception"]

Outcome(r) == Let(r, LAMBDA o : IF o.kind = "raise" THEN PyException ELSE o.v)

\* obj.get_text(indentation_depth=d) of a pattern or query, called by the user
GetText(obj, d) ==
  CASE obj.cls = "SPARQLGraphPattern" -> PatternGetText(obj.id, d, RecursionLimit)
    [] obj.cls = "SPARQLSelectQuery" -> SelectGetText(obj.id, d, RecursionLimit)
    [] obj.cls = "SPARQLUpdateQuery" -> UpdateGetText(obj.id, d, RecursionLimit)

\* A variant of get_text that empties the child list of the pattern it renders.
get_text_Consuming(obj, d) ==
  /\ Called("get_text", obj, PyInt(d))
  /\ ret' = Outcome(GetText(obj, d))
  /\ pat' = IF obj.cls = "SPARQLGraphPattern"
            THEN [pat EXCEPT ![obj.id].graph = << >>]
            ELSE pat
  /\ UNCHANGED <<sel, upd, added, nops>>

get_text(obj, d) ==
  /\ Called("get_text", obj, PyInt(d))
  /\ ret' = Outcome(GetText(obj, d))
  /\ UNCHANGED <<pat, sel, upd, added, nops>>

\* term.get_text() called by the user
term_get_text(term) ==
  /\ Called("get_text", term, PyNone)
  /\ ret' = Outcome(TermGetText(term, RecursionLimit))
  /\ UNCHANGED <<pat, sel, upd, added, nops>>

(***************************************************************************)
(* The arguments the calls are given: for every operation, arguments of    *)
(* the type it expects and arguments of other types.                       *)
(***************************************************************************)
TripleLists == {PyList(<<T1, T2>>), PyList(<<TS>>), PyList(<< >>)}

NotTripleLists == {PyList(<<T1, PyStr("?x")>>), T1, PyNone}

VariableLists == {PyList(<<PyStr("?name"), PyStr("?age")>>)}

NotVariableLists == {PyStr("?person"), PyList(<<PyStr("?person"), PyInt(1)>>)}

Bindings == {B1, B3}

ValueClauses == {V1, V2}

GroupBys == {G1}

Depths == 0..MaxDepth

Init ==
  /\ pat = [i \in PatIds |->
              SPARQLGraphPattern(PyBool(i \in {2, 4}), PyBool(i \in {3, 4}))]
  /\ sel = [i \in SelIds |->
              IF i = 1 THEN SPARQLSelectQuery(PyFalse, PyFalse)
              ELSE SPARQLSelectQuery(PyTrue, PyInt(100))]
  /\ upd = [i \in UpdIds |-> SPARQLUpdateQuery]
  /\ call = [op |-> "__init__", self |-> PyNone, arg |-> PyNone]
  /\ ret = PyNone
  /\ added = [i \in PatIds |-> << >>]
  /\ nops = 0

Builder ==
  \/ \E i \in PatIds, a \in TripleLists \cup NotTripleLists : add_triples(i, a)
  \/ \E i \in PatIds, a \in Patterns \cup {SelRef(1), T1, PyNone} :
       add_nested_graph_pattern(i, a)
  \/ \E i \in PatIds, a \in {SelRef(j) : j \in SelIds} \cup {UpdRef(1), PatRef(1), PyNone} :
       add_nested_select_query(i, a)
  \/ \E i \in PatIds, a \in {F1, H1, PyStr("?age < 65")} : add_filter(i, a)
  \/ \E i \in PatIds, a \in {H1, F1, PyStr("?n > 1")} : add_having(i, a)
  \/ \E i \in PatIds, a \in Bindings \cup {Bound(PyStr("?name")), PyStr("?age")} :
       add_binding(i, a)
  \/ \E i \in PatIds, a \in ValueClauses \cup {PyList(<<PyStr("https://x/1")>>), G1} :
       add_value(i, a)
  \/ \E q \in Queries, a \in {PX, PyStr("ex"), T1} : add_prefix(q, a)
  \/ \E q \in Queries, a \in Patterns \cup {SelRef(1), PyNone} :
       set_where_pattern(q, a)
  \/ \E i \in SelIds, a \in VariableLists \cup NotVariableLists : add_variables(i, a)
  \/ \E i \in SelIds, a \in GroupBys \cup {PyList(<<PyStr("?person")>>), F1} :
       add_group_by(i, a)
  \/ \E i \in UpdIds, a \in Patterns \cup {UpdRef(1), PyStr("{}")} :
       set_delete_pattern(i, a)
  \/ \E i \in UpdIds, a \in Patterns \cup {SelRef(2), PyNone} :
       set_insert_pattern(i, a)

Render ==
  \/ \E o \in Patterns \cup Queries, d \in Depths : get_text(o, d)
  \/ \E t \in Terms : term_get_text(t)

Next == (nops < MaxOps /\ Builder) \/ Render

Spec == Init /\ [][Next]_vars

(***************************************************************************)
(* What each builder operation documents as its argument: the class of the *)
(* argument, or for add_triples and add_variables the class of every       *)
(* element of the list.                                                    *)
(***************************************************************************)
ElementType == [add_triples |-> "Triple", add_variables |-> "str"]

ArgumentType ==
  [add_nested_graph_pattern |-> "SPARQLGraphPattern",
   add_nested_select_query |-> "SPARQLSelectQuery",
   add_filter |-> "Filter",
   add_having |-> "Having",
   add_binding |-> "Binding",
   add_value |-> "Values",
   add_prefix |-> "Prefix",
   add_group_by |-> "GroupBy",
   set_where_pattern |-> "SPARQLGraphPattern",
   set_delete_pattern |-> "SPARQLGraphPattern",
   set_insert_pattern |-> "SPARQLGraphPattern"]

BuilderOps == DOMAIN ElementType \cup DOMAIN ArgumentType

\* arg is of the type the builder operation op expects
OfExpectedType(op, arg) ==
  IF op \in DOMAIN ElementType
  THEN /\ IsInstance(arg, "list")
       /\ \A k \in 1..Len(arg.items) : IsInstance(arg.items[k], ElementType[op])
  ELSE IsInstance(arg, ArgumentType[op])

(***************************************************************************)
(* C1.  A builder operation whose argument is not of the expected type     *)
(* (for a list argument: not a list, or some element of the wrong type)    *)
(* returns False and changes no field of any object: a rejected list adds  *)
(* none of its elements, a rejected set_*_pattern keeps the pattern set    *)
(* before.                                                                 *)
(***************************************************************************)
C1_IllTypedArgumentRejected ==
  [][(call'.op \in BuilderOps /\ ~OfExpectedType(call'.op, call'.arg))
       => (ret' = PyFalse /\ pat' = pat /\ sel' = sel /\ upd' = upd)]_vars

\* add_triples was given a list holding a Triple and a str, on a pattern that
\* already has children: it returned False and the children are as they were.
C1_Witness ==
  /\ call.op = "add_triples"
  /\ call.arg = PyList(<<T1, PyStr("?x")>>)
  /\ ret = PyFalse
  /\ pat[call.self.id].graph = <<T1, T2>>

(***************************************************************************)
(* SpecClauses: the clauses and children of one pattern.  Patterns 1       *)
(* (plain) and 3 (union) are given value, bind, filter and having clauses, *)
(* triples and the nested pattern 2 in every order, and are rendered.      *)
(***************************************************************************)
ClauseReceivers == {1, 3}

BuilderClauses ==
  \E i \in ClauseReceivers :
    \/ add_value(i, V1)
    \/ add_triples(i, PyList(<<T1>>))
    \/ add_nested_graph_pattern(i, PatRef(2))
    \/ add_binding(i, B2)
    \/ add_filter(i, F1)
    \/ add_having(i, H1)

RenderClauses == \E i \in ClauseReceivers, d \in Depths : get_text(PatRef(i), d)

NextClauses == (nops < MaxClauseOps /\ BuilderClauses) \/ RenderClauses

SpecClauses == Init /\ [][NextClauses]_vars

(***************************************************************************)
(* The lines of a text: each line ends with a newline.  A line is named by *)
(* the position of its newline.                                            *)
(***************************************************************************)
Newlines(s) == {i \in 1..Len(s) : SubSeq(s, i, i) = "\n"}

\* The line that ends at the newline nl; nls are the newlines of s.
LineAt(s, nls, nl) ==
  LET before == {j \in nls : j < nl}
      start == IF before = {} THEN 1
               ELSE 1 + CHOOSE j \in before : \A k \in before : k <= j
  IN  SubSeq(s, start, nl - 1)

\* The section of a pattern's text that each line belongs to, the pattern
\* being rendered at depth d: 0 opening, 1 VALUES, 2 children, 3 BIND,
\* 4 FILTER / HAVING, 5 closing.
Sections(s, d) ==
  LET nls == Newlines(s)
      inner == Indent(d + 1)
      first == CHOOSE j \in nls : \A k \in nls : j <= k
  IN  [nl \in nls |->
         LET line == LineAt(s, nls, nl)
         IN  IF nl = Len(s) /\ line = Indent(d) \o "}" THEN 5
             ELSE IF nl = first THEN 0
             ELSE IF line = Indent(d) \o "{"
                     /\ SubSeq(s, 1, first - 1) = Indent(d) \o "UNION"
                     /\ \A j \in nls : j < nl => j = first
                  THEN 0
             ELSE IF StartsWith(line, inner \o "VALUES ") THEN 1
             ELSE IF StartsWith(line, inner \o "BIND (") THEN 3
             ELSE IF StartsWith(line, inner \o "FILTER (") THEN 4
             ELSE IF StartsWith(line, inner \o "HAVING (") THEN 4
             ELSE 2]

(***************************************************************************)
(* C2.  Whatever the order of the add calls, the text of a pattern is its  *)
(* opening line, then all its VALUES clauses, then all its children, then  *)
(* all its BIND clauses, then all its FILTER / HAVING clauses, then the    *)
(* closing brace line.                                                     *)
(***************************************************************************)
C2_SectionsInFixedOrder ==
  (call.op = "get_text" /\ call.self.cls = "SPARQLGraphPattern" /\ ret.cls = "str")
    => LET s == ret.s
           p == pat[call.self.id]
           section == Sections(s, call.arg.i)
           count(k) == Cardinality({nl \in DOMAIN section : section[nl] = k})
       IN  /\ Len(s) > 0 /\ Len(s) \in DOMAIN section
           /\ \A a, b \in DOMAIN section : a < b => section[a] <= section[b]
           /\ count(0) \in {1, 2}
           /\ count(1) = Len(p.values)
           /\ (count(2) = 0) = (p.graph = << >>)
           /\ count(3) = Len(p.bindings)
           /\ count(4) = Len(p.filters)
           /\ count(5) = 1

\* A pattern holding a value clause, a child, a bind clause and a filter
\* clause has been rendered.
C2_Witness ==
  /\ call.op = "get_text" /\ call.self.cls = "SPARQLGraphPattern"
  /\ ret.cls = "str" /\ ret.s # ""
  /\ pat[call.self.id].values # << >>
  /\ pat[call.self.id].graph # << >>
  /\ pat[call.self.id].bindings # << >>
  /\ pat[call.self.id].filters # << >>

(***************************************************************************)
(* The text a child contributes to its parent's text, the parent being     *)
(* rendered at depth d by a call of the user: a triple's line at the       *)
(* parent's inner indentation, a nested pattern's text at depth d + 1, a   *)
(* nested select query's text at depth d + 2 inside a brace pair.          *)
(***************************************************************************)
TextOf(r) == IF r.kind = "return" /\ r.v.cls = "str" THEN r.v.s ELSE ""

ChildText(child, d) ==
  IF IsInstance(child, "Triple")
  THEN Indent(d + 1) \o TextOf(TermGetText(child, RecursionLimit - 1))
  ELSE IF child.cls = "SPARQLGraphPattern"
  THEN TextOf(CallPattern(child.id, d + 1, RecursionLimit))
  ELSE Indent(d + 1) \o "{" \o TextOf(CallSelect(child.id, d + 2, RecursionLimit))
       \o Indent(d + 1) \o "}\n"

RECURSIVE ChildrenText(_, _)
ChildrenText(children, d) ==
  IF children = << >> THEN ""
  ELSE ChildText(Head(children), d) \o ChildrenText(Tail(children), d)

(***************************************************************************)
(* C3.  The child list of every pattern is the concatenation, in call      *)
(* order, of the arguments of the add_triples, add_nested_graph_pattern    *)
(* and add_nested_select_query calls that returned True, and the text of   *)
(* a pattern that has no clauses is its opening line, the texts of these   *)
(* children in that order, and its closing line.                           *)
(***************************************************************************)
C3_ChildrenInCallOrder ==
  /\ \A i \in PatIds : pat[i].graph = added[i]
  /\ (/\ call.op = "get_text" /\ call.self.cls = "SPARQLGraphPattern"
      /\ ret.cls = "str" /\ ret.s # ""
      /\ pat[call.self.id].values = << >>
      /\ pat[call.self.id].bindings = << >>
      /\ pat[call.self.id].filters = << >>)
     => ret.s = PatternOpening(pat[call.self.id], Indent(call.arg.i))
                \o ChildrenText(added[call.self.id], call.arg.i)
                \o Indent(call.arg.i) \o "}\n"

\* The same, for patterns whose triples are of class Triple itself.
C3_ExactClassChildrenInCallOrder ==
  \/ /\ call.op = "get_text" /\ call.self.cls = "SPARQLGraphPattern"
     /\ \E k \in 1..Len(added[call.self.id]) :
          added[call.self.id][k].cls = "TripleSub"
  \/ C3_ChildrenInCallOrder

(***************************************************************************)
(* Results of a get_text call made with n frames left: the call returned   *)
(* an empty or falsy value; the call returned a text.                      *)
(***************************************************************************)
ReturnedFalsy(r) == r.kind = "return" /\ ~Truthy(r.v)

ReturnedText(r) == r.kind = "return" /\ r.v.cls = "str" /\ r.v.s # ""

\* The patterns and select queries directly below a pattern or a select
\* query: the nested children of a pattern, the where pattern of a query.
Below(ref) ==
  IF ref.cls = "SPARQLGraphPattern"
  THEN {pat[ref.id].graph[k] : k \in 1..Len(pat[ref.id].graph)}
         \cap (Patterns \cup {SelRef(j) : j \in SelIds})
  ELSE {sel[ref.id].where} \cap Patterns

\* What get_text of ref evaluates to, called at depth d with n frames left
\* by the get_text of parent that nests it.
NestedCall(parent, ref, d, n) ==
  IF ref.cls = "SPARQLGraphPattern"
  THEN CallPattern(ref.id, IF parent.cls = "SPARQLGraphPattern" THEN d + 1 ELSE d, n)
  ELSE CallSelect(ref.id, d + 2, n)

DepthBelow(parent, ref, d) ==
  IF ref.cls = "SPARQLSelectQuery" THEN d + 2
  ELSE IF parent.cls = "SPARQLGraphPattern" THEN d + 1 ELSE d

(***************************************************************************)
(* C4.  When a nested pattern or nested select query below a pattern, its  *)
(* child or a child of its child (through a nested pattern or through the  *)
(* where pattern of a nested select query), returns an empty or falsy      *)
(* result to the get_text that called it, get_text of the pattern returns  *)
(* no text.                                                                *)
(***************************************************************************)
C4_FailedDescendantFailsPattern ==
  \A i \in PatIds, d \in Depths, n \in 3..RecursionLimit :
    \A c \in Below(PatRef(i)) :
      /\ ReturnedFalsy(NestedCall(PatRef(i), c, d, n))
           => ~ReturnedText(PatternGetText(i, d, n))
      /\ \A g \in Below(c) :
           ReturnedFalsy(NestedCall(c, g, DepthBelow(PatRef(i), c, d), n - 1))
             => ~ReturnedText(PatternGetText(i, d, n))

\* The same, for the children of a pattern and the children of its nested
\* patterns only (no path through the where pattern of a select query).
C4_FailedChildFailsPattern ==
  \A i \in PatIds, d \in Depths, n \in 2..RecursionLimit :
    \A c \in Below(PatRef(i)) :
      /\ (LET r == NestedCall(PatRef(i), c, d, n)
          IN  r.kind = "raise" \/ ReturnedFalsy(r))
           => ~ReturnedText(PatternGetText(i, d, n))
      /\ c.cls = "SPARQLGraphPattern" => \A g \in Below(c) :
           (LET r == NestedCall(c, g, DepthBelow(PatRef(i), c, d), n - 1)
            IN  r.kind = "raise" \/ ReturnedFalsy(r))
             => ~ReturnedText(PatternGetText(i, d, n))

(***************************************************************************)
(* C5.  When the where pattern of a select query, or the delete, insert or *)
(* where pattern of an update query, returns an empty or falsy result to   *)
(* the query's get_text, the query's get_text returns no text.             *)
(***************************************************************************)
C5_FailedSectionFailsQuery ==
  \A d \in Depths, n \in 2..RecursionLimit :
    /\ \A q \in SelIds :
         (sel[q].where # PyNone /\ ReturnedFalsy(CallPattern(sel[q].where.id, d, n)))
           => ~ReturnedText(SelectGetText(q, d, n))
    /\ \A u \in UpdIds : \A section \in {upd[u].delete, upd[u].insert, upd[u].where} :
         (section # PyNone /\ ReturnedFalsy(CallPattern(section.id, d, n)))
           => ~ReturnedText(UpdateGetText(u, d, n))

(***************************************************************************)
(* C6.  A get_text call of the user never raises to the user, whether the  *)
(* receiver is a term, a pattern or a query, and a term whose own slot     *)
(* cannot be rendered (a Binding, Bound or IfClause slot holding an object *)
(* that is neither a string nor a term, a Values or GroupBy whose sequence *)
(* is not a list of strings) returns the empty string.  A string given as  *)
(* the sequence of a Values or GroupBy is no fault: the code iterates its  *)
(* characters.                                                             *)
(***************************************************************************)
FaultySlot(v) == v.cls \notin {"str"} \cup TermClasses

FaultySequence(v) ==
  /\ v.cls # "str"
  /\ v.cls = "list" => \E k \in 1..Len(v.items) : v.items[k].cls # "str"

HasInternalFault(t) ==
  CASE t.cls = "Binding" -> FaultySlot(t.value)
    [] t.cls = "Bound" -> FaultySlot(t.variable)
    [] t.cls = "IfClause" ->
         FaultySlot(t.condition) \/ FaultySlot(t.true_value) \/ FaultySlot(t.false_value)
    [] t.cls = "GroupBy" -> FaultySequence(t.variables)
    [] t.cls \in {"Values", "ValuesSub"} -> FaultySequence(t.values)
    [] OTHER -> FALSE

C6_WitnessPattern ==
  /\ call.op = "get_text"
  /\ call.self.cls = "SPARQLGraphPattern"
  /\ PatRef(call.self.id) \in Below(call.self)
  /\ ret = PyFalse

(***************************************************************************)
(* C7.  When a term nested in a slot of a term, or a value, bind, filter   *)
(* or having clause held by a pattern, renders to the empty string, the    *)
(* get_text of the enclosing term or pattern returns an empty or falsy     *)
(* result.                                                                 *)
(***************************************************************************)
SlotTerms(t) ==
  {v \in (CASE t.cls = "Binding" -> {t.value}
            [] t.cls = "Bound" -> {t.variable}
            [] t.cls = "IfClause" -> {t.condition, t.true_value, t.false_value}
            [] OTHER -> {}) : v.cls \in TermClasses}

Clauses(p) ==
  {p.values[k] : k \in 1..Len(p.values)}
    \cup {p.bindings[k] : k \in 1..Len(p.bindings)}
    \cup {p.filters[k] : k \in 1..Len(p.filters)}

RendersEmpty(t, n) == TermGetText(t, n) = Returned(PyStr(""))

C7_FailedTermFailsEnclosing ==
  call.op = "get_text"
    => /\ (/\ call.self.cls \in TermClasses
           /\ \E u \in SlotTerms(call.self) : RendersEmpty(u, RecursionLimit - 1))
            => ~Truthy(ret)
       /\ (/\ call.self.cls = "SPARQLGraphPattern"
           /\ \E c \in Clauses(pat[call.self.id]) : RendersEmpty(c, RecursionLimit - 1))
            => ~Truthy(ret)

NestParents == {1, 2}

BuilderNesting ==
  \/ \E i \in PatIds : add_triples(i, PyList(<<T1>>))
  \/ \E i \in NestParents, j \in PatIds : add_nested_graph_pattern(i, PatRef(j))

RenderNesting == \E i \in NestParents, d \in Depths : get_text(PatRef(i), d)

NextNesting == (nops < MaxNestOps /\ BuilderNesting) \/ RenderNesting

SpecNesting == Init /\ [][NextNesting]_vars

\* s.endswith(suffix)
EndsWith(s, suffix) ==
  Len(s) >= Len(suffix) /\ SubSeq(s, Len(s) - Len(suffix) + 1, Len(s)) = suffix

\* s[k:]
DropFirst(s, k) == SubSeq(s, k + 1, Len(s))

\* The last get_text call was made on a pattern that has no clauses, and it
\* returned a text.
RenderedPattern ==
  /\ call.op = "get_text" /\ call.self.cls = "SPARQLGraphPattern"
  /\ ret.cls = "str" /\ ret.s # ""
  /\ Clauses(pat[call.self.id]) = {}

\* The text of the rendered pattern up to and including its k-th child.
TextUpTo(k) ==
  PatternOpening(pat[call.self.id], Indent(call.arg.i))
    \o ChildrenText(SubSeq(pat[call.self.id].graph, 1, k), call.arg.i)

\* The lines "s p o . " of triples, each at indentation depth d.
RECURSIVE TripleLines(_, _)
TripleLines(triples, d) ==
  IF triples = << >> THEN ""
  ELSE Indent(d) \o Head(triples).subject \o " " \o Head(triples).predicate \o " "
       \o Head(triples).object \o " . \n" \o TripleLines(Tail(triples), d)

(***************************************************************************)
(* C9.  In the text of a parent rendered at depth d, a nested pattern      *)
(* constructed with optional=True stands at depth d + 1: its opening line  *)
(* is d + 1 indentation units and "OPTIONAL {", its triples are at d + 2   *)
(* units, its closing brace at d + 1 units; the texts of the parent's      *)
(* other children stand before and after it as they are, and the parent's  *)
(* closing brace follows at d units.                                       *)
(***************************************************************************)
C9_OptionalChildAtNextDepth ==
  RenderedPattern =>
    LET d == call.arg.i
        graph == pat[call.self.id].graph
    IN  /\ ret.s = TextUpTo(Len(graph)) \o Indent(d) \o "}\n"
        /\ \A k \in 1..Len(graph) :
             (graph[k].cls = "SPARQLGraphPattern"
                /\ Truthy(pat[graph[k].id].is_optional))
               => LET rest == DropFirst(ret.s, Len(TextUpTo(k - 1)))
                      children == pat[graph[k].id].graph
                      block == Indent(d + 1) \o "OPTIONAL {\n"
                               \o TripleLines(children, d + 2)
                               \o Indent(d + 1) \o "}\n"
                  IN  /\ StartsWith(rest, Indent(d + 1) \o "OPTIONAL {\n")
                      /\ EndsWith(ChildText(graph[k], d), "\n" \o Indent(d + 1) \o "}\n")
                      /\ (\A j \in 1..Len(children) : children[j].cls = "Triple")
                           => StartsWith(rest, block)

\* A parent has been rendered that holds a triple and, after it, an optional
\* pattern with a triple of its own.
C9_Witness ==
  /\ RenderedPattern
  /\ \E k \in 2..Len(pat[call.self.id].graph) :
       /\ pat[call.self.id].graph[k - 1] = T1
       /\ pat[call.self.id].graph[k] = PatRef(2)
  /\ pat[2].graph = <<T1>>

(***************************************************************************)
(* The UNION keyword lines of a text, and the patterns of a tree that      *)
(* count as union-marked: those constructed with union=True, or (strict)   *)
(* those constructed with union=True and without optional=True.            *)
(***************************************************************************)
IsUnionLine(line) == \E m \in 0..(Len(line) \div 3) : line = Indent(m) \o "UNION"

UnionLines(s) ==
  LET nls == Newlines(s) IN {nl \in nls : IsUnionLine(LineAt(s, nls, nl))}

UnionMarked(p, strict) ==
  Truthy(p.is_union) /\ (strict => ~Truthy(p.is_optional))

\* The union-marked patterns of the tree below and including pattern id,
\* counted as often as they occur.
RECURSIVE MarkedBelow(_, _, _)
RECURSIVE MarkedNodes(_, _)
MarkedBelow(graph, k, strict) ==
  IF k > Len(graph) THEN 0
  ELSE (IF graph[k].cls = "SPARQLGraphPattern"
        THEN MarkedNodes(graph[k].id, strict) ELSE 0)
       + MarkedBelow(graph, k + 1, strict)

MarkedNodes(id, strict) ==
  (IF UnionMarked(pat[id], strict) THEN 1 ELSE 0)
    + MarkedBelow(pat[id].graph, 1, strict)

\* The statement of C10 about the text of the rendered pattern.
UnionStatement(strict) ==
  RenderedPattern =>
    LET d == call.arg.i
        graph == pat[call.self.id].graph
        keyword == Indent(d + 1) \o "UNION\n"
    IN  /\ \A k \in 1..Len(graph) :
             graph[k].cls = "SPARQLGraphPattern" =>
               LET rest == DropFirst(ret.s, Len(TextUpTo(k - 1)))
               IN  IF UnionMarked(pat[graph[k].id], strict)
                   THEN /\ StartsWith(rest, keyword \o Indent(d + 1) \o "{\n")
                        /\ (k > 1 /\ graph[k - 1].cls = "SPARQLGraphPattern")
                             => EndsWith(TextUpTo(k - 1), Indent(d + 1) \o "}\n")
                   ELSE ~StartsWith(rest, keyword)
        /\ Cardinality(UnionLines(ret.s)) = MarkedNodes(call.self.id, strict)
        /\ \A nl \in UnionLines(ret.s) :
             LET line == LineAt(ret.s, Newlines(ret.s), nl)
                 indentation == SubSeq(line, 1, Len(line) - 5)
             IN  StartsWith(DropFirst(ret.s, nl), indentation \o "{\n")

(***************************************************************************)
(* C10.  In the text of a parent, a nested pattern constructed with        *)
(* union=True and without optional=True is preceded by exactly one UNION   *)
(* keyword on a line of its own at the siblings' indentation, which        *)
(* follows the closing brace of the sibling before it and is followed by   *)
(* the pattern's opening brace on the next line at the same indentation;   *)
(* the text has one UNION line for each such pattern of the tree, and no   *)
(* UNION line stands before any other pattern.                             *)
(***************************************************************************)
C10_UnionOncePerUnionOnlyPattern == UnionStatement(TRUE)

\* C10 as stated: the same for every pattern constructed with union=True.
C10_UnionOncePerUnionMarkedPattern == UnionStatement(FALSE)

\* A parent has been rendered that holds two sibling patterns of which only
\* the second is constructed with union=True.
C10_Witness ==
  /\ RenderedPattern
  /\ \E k \in 2..Len(pat[call.self.id].graph) :
       /\ pat[call.self.id].graph[k - 1] \in {PatRef(1), PatRef(2)}
       /\ pat[call.self.id].graph[k] = PatRef(3)
  /\ Cardinality(UnionLines(ret.s)) = 1

(***************************************************************************)
(* SpecValues: Values clauses over every list of up to MaxValues tokens,   *)
(* each rendered by the user.  The tokens are HTTP and HTTPS URIs, a URI   *)
(* already in angle brackets, prefixed names and a literal.                *)
(***************************************************************************)
MaxValues == 3

ValueTokens ==
  {PyStr("https://x/1"), PyStr("http://x/2"), PyStr("<https://x/3>"),
   PyStr("ex:Foo"), PyStr("httpx:Thing"), PyStr("'http'")}

ValueLists == UNION {[1..k -> ValueTokens] : k \in 0..MaxValues}

NextValues ==
  \E values \in ValueLists : term_get_text(Values(PyList(values), PyStr("?v")))

SpecValues == Init /\ [][NextValues]_vars

\* The token is an HTTP(S) URI.
IsHttpUri(s) == StartsWith(s, "http://") \/ StartsWith(s, "https://")

\* The normalization rule as the specification states it.
Normalized(s) ==
  IF StartsWith(s, "<") THEN s
  ELSE IF IsHttpUri(s) THEN "<" \o s \o ">"
  ELSE s

\* C11: Values.get_text renders "VALUES <name> {...}" with the values in
\* their given order, joined by spaces, each normalized: a value that starts
\* with "<" is unchanged, an HTTP(S) URI is wrapped in angle brackets, and
\* every other token (a prefixed name, a literal) is unchanged.
C11_ValuesNormalized ==
  (call.op = "get_text" /\ call.self.cls = "Values")
    => ret = PyStr("VALUES " \o call.self.name.s \o " {"
                   \o Join([k \in 1..Len(call.self.values.items) |->
                              Normalized(call.self.values.items[k].s)], " ")
                   \o "}")

\* The same for the lists whose tokens that are not HTTP(S) URIs do not
\* start with "http" either.
C11_ValuesNormalizedUnlessHttpPrefixed ==
  (/\ call.op = "get_text" /\ call.self.cls = "Values"
   /\ \A k \in 1..Len(call.self.values.items) :
        StartsWith(call.self.values.items[k].s, "http")
          => IsHttpUri(call.self.values.items[k].s))
    => ret = PyStr("VALUES " \o call.self.name.s \o " {"
                   \o Join([k \in 1..Len(call.self.values.items) |->
                              Normalized(call.self.values.items[k].s)], " ")
                   \o "}")

(***************************************************************************)
(* SpecSelect: the two select queries (the first without DISTINCT and      *)
(* LIMIT, the second with both) are given prefixes, variables, GROUP BY    *)
(* clauses and the plain pattern as where pattern, the pattern is given    *)
(* triples, in every order, and the queries are rendered.                  *)
(***************************************************************************)
MaxSelectOps == 5

PX2 == Prefix(PyStr("foaf"), PyStr("http://xmlns.com/foaf/0.1/"))

G4 == GroupBy(PyList(<<PyStr("?name")>>))

BuilderSelect ==
  \/ add_triples(1, PyList(<<T1>>))
  \/ \E i \in SelIds :
       \/ \E prefix \in {PX, PX2} : add_prefix(SelRef(i), prefix)
       \/ add_variables(i, PyList(<<PyStr("?name"), PyStr("?age")>>))
       \/ set_where_pattern(SelRef(i), PatRef(1))
       \/ \E group \in {G1, G4} : add_group_by(i, group)

RenderSelect == \E i \in SelIds, d \in Depths : get_text(SelRef(i), d)

NextSelect == (nops < MaxSelectOps /\ BuilderSelect) \/ RenderSelect

SpecSelect == Init /\ [][NextSelect]_vars

\* The positions of the newlines of s that end an empty line.
BlankLines(s) ==
  {i \in 1..Len(s) : /\ SubSeq(s, i, i) = "\n"
                      /\ (i = 1 \/ SubSeq(s, i - 1, i - 1) = "\n")}

\* The parts of a select query's text that newlines separate, as C12 lists
\* them: star is the text that stands for "no variable", limit_indentation
\* the indentation of the LIMIT line.
SelectParts(q, d, star, limit_indentation) ==
  [k \in 1..Len(q.prefixes) |->
     "PREFIX " \o q.prefixes[k].prefix.s \o ": <" \o q.prefixes[k].namespace.s \o ">"]
  \o <<"">>
  \o <<Indent(d) \o "SELECT " \o (IF q.distinct = PyTrue THEN "DISTINCT " ELSE "")
       \o (IF q.variables = << >> THEN star
           ELSE Join([k \in 1..Len(q.variables) |-> q.variables[k].s], " "))>>
  \o <<Indent(d) \o "WHERE "
       \o (IF q.where = PyNone THEN ""
           ELSE Indent(d) \o "{\n" \o TripleLines(pat[q.where.id].graph, d + 1)
                \o Indent(d) \o "}")>>
  \o [k \in 1..Len(q.group_by) |->
        Indent(d) \o "GROUP BY "
        \o Join([j \in 1..Len(q.group_by[k].variables.items) |->
                   q.group_by[k].variables.items[j].s], " ")]
  \o (IF q.limit = PyFalse THEN << >>
      ELSE <<limit_indentation \o "LIMIT " \o PyToStr(q.limit)>>)

\* C12: the text of a select query is its prefix declarations in insertion
\* order, one blank line, the SELECT line (DISTINCT iff the flag is set, the
\* variables in insertion order or "*"), the WHERE token with the where
\* pattern's text less its final newline, the GROUP BY clauses in insertion
\* order, and the LIMIT line last iff a limit was set, whatever the order of
\* the builder calls; the blank line after the prefixes is the only one.
\* (The indentation of the LIMIT line is the subject of C15.)
C12_SelectPartsInFixedOrder ==
  (call.op = "get_text" /\ call.self.cls = "SPARQLSelectQuery")
    => /\ \E star \in {"*", " *"}, limit_indentation \in {"", Indent(call.arg.i)} :
            ret = PyStr(Join(SelectParts(sel[call.self.id], call.arg.i, star,
                                         limit_indentation), "\n"))
       /\ Cardinality(BlankLines(ret.s)) = 1

\* The second query rendered after it was given, in an order other than the
\* order of the text, a GROUP BY clause, a where pattern with a triple, two
\* variables and a prefix.
C12_Witness ==
  /\ call.op = "get_text" /\ call.self = SelRef(2) /\ call.arg = PyInt(0)
  /\ sel[2].prefixes = <<PX>>
  /\ sel[2].variables = <<PyStr("?name"), PyStr("?age")>>
  /\ sel[2].where = PatRef(1) /\ pat[1].graph = <<T1>>
  /\ sel[2].group_by = <<G1>>
  /\ ret = PyStr("PREFIX ex: <http://www.example.com#>\n\nSELECT DISTINCT ?name ?age\nWHERE {\n   ?person rdf:type ex:Person . \n}\nGROUP BY ?person ?age\nLIMIT 100")

(***************************************************************************)
(* SpecUpdate: the update query is given prefixes and, in every order, the *)
(* plain or the optional pattern as its delete, insert and where pattern;  *)
(* the two patterns are given triples; and the query is rendered.          *)
(***************************************************************************)
MaxUpdateOps == 4

SectionPatterns == {PatRef(1), PatRef(2)}

BuilderUpdate ==
  \/ \E p \in SectionPatterns : add_triples(p.id, PyList(<<T1>>))
  \/ \E prefix \in {PX, PX2} : add_prefix(UpdRef(1), prefix)
  \/ \E p \in SectionPatterns : set_delete_pattern(1, p)
  \/ \E p \in SectionPatterns : set_insert_pattern(1, p)
  \/ \E p \in SectionPatterns : set_where_pattern(UpdRef(1), p)

RenderUpdate == \E d \in Depths : get_text(UpdRef(1), d)

NextUpdate == (nops < MaxUpdateOps /\ BuilderUpdate) \/ RenderUpdate

SpecUpdate == Init /\ [][NextUpdate]_vars

\* token in s
Occurs(token, s) ==
  \E i \in 1..(Len(s) - Len(token) + 1) : SubSeq(s, i, i + Len(token) - 1) = token

\* The section of an update query for the pattern ref, which holds triples
\* only: nothing when the pattern is unset, else the token and the pattern's
\* text less its final newline.
UpdateSectionPart(token, ref, d) ==
  IF ref = PyNone THEN << >>
  ELSE <<Indent(d) \o token \o " " \o PatternOpening(pat[ref.id], Indent(d))
         \o TripleLines(pat[ref.id].graph, d + 1) \o Indent(d) \o "}">>

\* The parts of an update query's text that newlines separate.
UpdateParts(u, d) ==
  [k \in 1..Len(u.prefixes) |->
     "PREFIX " \o u.prefixes[k].prefix.s \o ": <" \o u.prefixes[k].namespace.s \o ">"]
  \o <<"">>
  \o UpdateSectionPart("DELETE", u.delete, d)
  \o UpdateSectionPart("INSERT", u.insert, d)
  \o UpdateSectionPart("WHERE", u.where, d)

\* C13: the text of an update query is its prefixes and then the DELETE,
\* INSERT and WHERE sections in that order, whatever the order of the
\* set_*_pattern calls, and a section's token is in the text if and only if
\* its pattern has been set.
C13_UpdateSectionsIffSet ==
  (call.op = "get_text" /\ call.self.cls = "SPARQLUpdateQuery")
    => /\ ret = PyStr(Join(UpdateParts(upd[call.self.id], call.arg.i), "\n"))
       /\ Occurs("DELETE ", ret.s) <=> upd[call.self.id].delete # PyNone
       /\ Occurs("INSERT ", ret.s) <=> upd[call.self.id].insert # PyNone
       /\ Occurs("WHERE ", ret.s) <=> upd[call.self.id].where # PyNone

\* The query rendered with its where pattern set first, then its delete
\* pattern, and no insert pattern.
C13_Witness ==
  /\ call.op = "get_text" /\ call.self = UpdRef(1) /\ call.arg = PyInt(0)
  /\ upd[1].prefixes = <<PX>>
  /\ upd[1].delete = PatRef(1) /\ upd[1].insert = PyNone /\ upd[1].where = PatRef(1)
  /\ ret = PyStr("PREFIX ex: <http://www.example.com#>\n\nDELETE {\n   ?person rdf:type ex:Person . \n}\nWHERE {\n   ?person rdf:type ex:Person . \n}")

(***************************************************************************)
(* SpecTerms: Binding, Bound and IfClause terms nested in one another.     *)
(* The user constructs a term of one of the three classes around the term  *)
(* of the call before (the first around a string), up to MaxTermDepth      *)
(* levels, and renders the term at hand at any time.  The deepest terms    *)
(* need one frame more than a call of the user is given.                   *)
(***************************************************************************)
MaxTermDepth == RecursionLimit + 1

NestingClasses == {"Binding", "Bound", "IfClause"}

\* The nesting depth of a term: 1 for a term whose slots hold strings.
RECURSIVE TermDepth(_)
TermDepth(t) ==
  IF SlotTerms(t) = {} THEN 1
  ELSE 1 + (CHOOSE m \in {TermDepth(v) : v \in SlotTerms(t)} :
              \A v \in SlotTerms(t) : TermDepth(v) <= m)

\* Binding(inner, '?address'), Bound(inner) or IfClause(inner, '?address',
\* "'Unknown'"), inner being the term of the call before or, at the start,
\* the string '?address'.
construct(class) ==
  /\ call.self # PyNone => TermDepth(call.self) < MaxTermDepth
  /\ LET inner == IF call.self = PyNone THEN PyStr("?address") ELSE call.self
     IN Called("__init__",
               CASE class = "Binding" -> Binding(inner, PyStr("?address"))
                 [] class = "Bound" -> Bound(inner)
                 [] class = "IfClause" ->
                      IfClause(inner, PyStr("?address"), PyStr("'Unknown'")),
               PyNone)
  /\ ret' = PyNone
  /\ UNCHANGED <<pat, sel, upd, added, nops>>

NextTerms ==
  \/ \E class \in NestingClasses : construct(class)
  \/ \E term \in {call.self} \ {PyNone} : term_get_text(term)

SpecTerms == Init /\ [][NextTerms]_vars

\* The text of a term tree with every nested term expanded in place.
RECURSIVE Expanded(_)
Expanded(t) ==
  CASE t.cls = "str" -> t.s
    [] t.cls = "Binding" ->
         "BIND (" \o Expanded(t.value) \o " AS " \o Expanded(t.variable) \o ")"
    [] t.cls = "Bound" -> "BOUND (" \o Expanded(t.variable) \o ")"
    [] t.cls = "IfClause" ->
         "IF (" \o Expanded(t.condition) \o ", " \o Expanded(t.true_value) \o ", "
         \o Expanded(t.false_value) \o ")"

\* C14: Binding, Bound and IfClause render recursively, a string slot
\* copied and a nested term replaced by its full text, so that a term tree
\* of any nesting depth renders fully expanded.
C14_TermTreeFullyExpanded ==
  (call.op = "get_text" /\ call.self.cls \in NestingClasses)
    => ret = PyStr(Expanded(call.self))

\* The same for the term trees whose depth does not exceed the number of
\* frames the call is given.
C14_TermTreeExpandedWithinFrames ==
  (/\ call.op = "get_text" /\ call.self.cls \in NestingClasses
   /\ TermDepth(call.self) <= RecursionLimit)
    => ret = PyStr(Expanded(call.self))

(***************************************************************************)
(* C15.  The lines of a select query rendered at depth d, by the user or   *)
(* as the only child of a pattern that the user renders at depth d - 2.    *)
(* The select query's where pattern, if it has one, holds triples only, so *)
(* that every keyword line of the text is the rendered query's own.        *)
(***************************************************************************)
\* The number of spaces line starts with.
LeadingSpaces(line) ==
  CHOOSE k \in 0..Len(line) :
    /\ \A j \in 1..k : SubSeq(line, j, j) = " "
    /\ k < Len(line) => SubSeq(line, k + 1, k + 1) # " "

\* The select query the last call rendered, alone or as the only child of
\* the pattern it was made on.
RenderedSelect ==
  IF call.self.cls = "SPARQLSelectQuery" THEN call.self
  ELSE pat[call.self.id].graph[1]

RenderedSelectDepth ==
  IF call.self.cls = "SPARQLSelectQuery" THEN call.arg.i ELSE call.arg.i + 2

SelectRendered ==
  /\ call.op = "get_text" /\ ret.cls = "str" /\ ret.s # ""
  /\ \/ call.self.cls = "SPARQLSelectQuery"
     \/ /\ call.self.cls = "SPARQLGraphPattern"
        /\ Clauses(pat[call.self.id]) = {}
        /\ Len(pat[call.self.id].graph) = 1
        /\ pat[call.self.id].graph[1].cls = "SPARQLSelectQuery"
  /\ LET where == sel[RenderedSelect.id].where
     IN where # PyNone =>
          \A k \in 1..Len(pat[where.id].graph) :
            IsInstance(pat[where.id].graph[k], "Triple")

\* Every line of the text that starts, after its indentation, with one of
\* the keywords, is indented by exactly the depth of the select query; and a
\* pattern puts the brace pair around its select query at its inner
\* indentation.
KeywordLinesIndented(keywords) ==
  SelectRendered =>
    /\ LET text == ret.s \o "\n"
           nls == Newlines(text)
       IN \A nl \in nls :
            LET line == LineAt(text, nls, nl)
                indentation == LeadingSpaces(line)
            IN (\E keyword \in keywords :
                  StartsWith(DropFirst(line, indentation), keyword))
                 => indentation = 3 * RenderedSelectDepth
    /\ call.self.cls = "SPARQLGraphPattern" =>
         LET opening == PatternOpening(pat[call.self.id], Indent(call.arg.i))
         IN /\ StartsWith(DropFirst(ret.s, Len(opening)),
                          Indent(call.arg.i + 1) \o "{")
            /\ EndsWith(ret.s, Indent(call.arg.i + 1) \o "}\n"
                               \o Indent(call.arg.i) \o "}\n")

\* C15: when a select query is rendered at depth d, every keyword line it
\* emits (SELECT, WHERE, each GROUP BY and LIMIT) starts with exactly d
\* indentation units, and the brace pair its parent pattern wraps around it
\* is at the parent's inner indentation.
C15_KeywordLinesAtDepth ==
  KeywordLinesIndented({"SELECT ", "WHERE ", "GROUP BY ", "LIMIT "})

\* The same without the LIMIT line.
C15_KeywordLinesAtDepthExceptLimit ==
  KeywordLinesIndented({"SELECT ", "WHERE ", "GROUP BY "})

\* A pattern rendered with a select query that has a GROUP BY clause as its
\* only child.
C15_WitnessNested ==
  /\ SelectRendered /\ call.self.cls = "SPARQLGraphPattern"
  /\ sel[RenderedSelect.id].group_by # << >>

(***************************************************************************)
(* C16.  Patterns constructed with optional=True and union=True.           *)
(***************************************************************************)
\* The pattern holds no nested pattern and no nested select query.
HoldsTriplesOnly(p) == \A k \in 1..Len(p.graph) : IsInstance(p.graph[k], "Triple")

\* C16: the text of a pattern constructed with both optional=True and
\* union=True starts with the OPTIONAL opening line and has no UNION keyword
\* of the pattern's own (none at all when the pattern nests nothing); and
\* the two flags of every pattern are at all times the ones it was
\* constructed with, whatever builder and render operations were called.
C16_OptionalWinsAndFlagsFixed ==
  /\ \A i \in PatIds :
       /\ pat[i].is_optional = PyBool(i \in {2, 4})
       /\ pat[i].is_union = PyBool(i \in {3, 4})
  /\ (/\ call.op = "get_text" /\ call.self.cls = "SPARQLGraphPattern"
      /\ pat[call.self.id].is_optional = PyTrue
      /\ pat[call.self.id].is_union = PyTrue
      /\ ret.cls = "str" /\ ret.s # "")
       => /\ StartsWith(ret.s, Indent(call.arg.i) \o "OPTIONAL {\n")
          /\ HoldsTriplesOnly(pat[call.self.id]) => ~Occurs("UNION", ret.s)

\* The pattern with both flags rendered after it was given triples and a
\* filter.
C16_Witness ==
  /\ call.op = "get_text" /\ call.self = PatRef(4) /\ call.arg = PyInt(1)
  /\ pat[4].is_optional = PyTrue /\ pat[4].is_union = PyTrue
  /\ pat[4].graph = <<T1, T2>> /\ pat[4].filters = <<F1>>
  /\ ret = PyStr("   OPTIONAL {\n      ?person rdf:type ex:Person . \n      ?person ex:hasAge 30 . \n      FILTER (?age < 65)\n   }\n")

(***************************************************************************)
(* C17.  The nesting relation among the patterns and queries.              *)
(***************************************************************************)
\* The places where node is held as a child: a position of a pattern's
\* child list, or the where, delete or insert field of a query.
ParentSlots(node) ==
  UNION {{<<PatRef(i), k>> :
            k \in {j \in 1..Len(pat[i].graph) : pat[i].graph[j] = node}} :
         i \in PatIds}
    \cup {<<SelRef(i), "where">> : i \in {j \in SelIds : sel[j].where = node}}
    \cup {<<UpdRef(i), "where">> : i \in {j \in UpdIds : upd[j].where = node}}
    \cup {<<UpdRef(i), "delete">> : i \in {j \in UpdIds : upd[j].delete = node}}
    \cup {<<UpdRef(i), "insert">> : i \in {j \in UpdIds : upd[j].insert = node}}

\* The patterns and queries node holds directly.
Held(node) ==
  {child \in Patterns \cup Queries : \E slot \in ParentSlots(child) : slot[1] = node}

\* The patterns and queries that node holds directly or through others.
RECURSIVE HeldThrough(_, _)
HeldThrough(nodes, k) ==
  IF k = 0 THEN nodes
  ELSE HeldThrough(nodes \cup UNION {Held(node) : node \in nodes}, k - 1)

\* C17: after any sequence of builder operations the nesting relation is a
\* tree: a pattern or query is the child of at most one parent and at most
\* once, and none holds itself, directly or through others.
C17_NestingIsTree ==
  \A node \in Patterns \cup Queries :
    /\ Cardinality(ParentSlots(node)) <= 1
    /\ node \notin HeldThrough(Held(node), Cardinality(Patterns \cup Queries))

(***************************************************************************)
(* C18.  The children a pattern accepted and the children its text shows.  *)
(***************************************************************************)
\* The last call was get_text of a pattern and returned a text, and every
\* child the pattern accepted whose class is in classes has its text in it.
AcceptedChildrenRendered(classes) ==
  (/\ call.op = "get_text" /\ call.self.cls = "SPARQLGraphPattern"
   /\ ret.cls = "str" /\ ret.s # "")
    => \A k \in 1..Len(added[call.self.id]) :
         added[call.self.id][k].cls \in classes
           => Occurs(ChildText(added[call.self.id][k], call.arg.i), ret.s)

\* C18: the acceptance tests of add_triples, add_nested_graph_pattern and
\* add_nested_select_query agree with the dispatch of get_text: every object
\* for which one of them returned True, an instance of a subclass of Triple
\* included, has its text in the text of the pattern, none is skipped.
C18_AcceptedChildIsRendered ==
  AcceptedChildrenRendered({"Triple", "TripleSub", "SPARQLGraphPattern",
                            "SPARQLSelectQuery"})

\* The same for the children whose class is one of the three classes
\* themselves.
C18_ExactClassChildIsRendered ==
  AcceptedChildrenRendered({"Triple", "SPARQLGraphPattern", "SPARQLSelectQuery"})

====
